---- MODULE Spec2Model ----
(***************************************************************************)
(* TmuxCluster (surreal/session/tmux_cluster.py): bring-up, fleet changes  *)
(* and tear-down of the infras / learner / agent tmux sessions.            *)
(*                                                                         *)
(* The orchestrator keeps no state of its own beyond what __init__ sets;   *)
(* everything "running" lives in the multiplexer backend (TmuxRunner),     *)
(* which is modelled from its interface contract.  Every public method is  *)
(* one action; the backend calls it issues are threaded through a record   *)
(* st (the backend as the method sees it, the log of calls issued, the     *)
(* error raised so far).                                                   *)
(***************************************************************************)
EXTENDS Integers, Sequences, FiniteSets, TLC

VARIABLES
    cluster_name,    \* __init__ argument
    evaluator_cmd,   \* self.evaluator_cmd (None when evaluation is skipped)
    dup_policy,      \* what the backend does on a create for a window name in use
    sessions,        \* backend: the names of the existing sessions
    windows,         \* backend: session name -> sequence of [name, cmd], oldest first
    last,            \* history: the most recent call, its arguments, calls and outcome
    fleet,           \* history: agent names created and not killed since, in order
    clean,           \* history: every call so far succeeded, nothing external happened
    procs            \* two orchestrators in add_agents at once: where each one is

vars == <<cluster_name, evaluator_cmd, dup_policy, sessions, windows, last, fleet,
          clean, procs>>

(***************************************************************************)
(* Bounds of the model.                                                    *)
(***************************************************************************)
\* longest agent_names / agent_args list handed to a call
MaxFleet == 2
\* most backend calls answered before an injected BackendUnavailable
MaxBudget == 5
\* most panes showing an error at one check_error
MaxErrored == 1
\* most characters between the fixed head and tail of a script reference
MaxScript == 2

(***************************************************************************)
(* Values.                                                                 *)
(***************************************************************************)
None == "<None>"

Range(s) == {s[i] : i \in 1..Len(s)}

\* A python value that may be used as an agent name or argument token: its
\* type and the text str() gives for it.
PyStr(t) == [type |-> "str", repr |-> t]
PyInt(t) == [type |-> "int", repr |-> t]
PyNone == [type |-> "NoneType", repr |-> "None"]

\* str(x): an int and the string of its digits are different values with the
\* same string form.
Str(x) == x.repr

\* bool(x), as "if x:" tests it: None, the int 0 and the empty string are
\* false.
Truthy(x) ==
    IF x.type = "NoneType" THEN FALSE
    ELSE IF x.type = "int" THEN x.repr # "0"
    ELSE x.repr # ""

AgentIds == {PyStr("a"), PyStr("0"), PyInt("0")}

\* One entry of agent_args: None, a command string, a list of tokens, or
\* anything else.
ArgNone == [kind |-> "none", s |-> "", l |-> <<>>]
ArgString == [kind |-> "str", s |-> "--id 0", l |-> <<>>]
ArgList == [kind |-> "list", s |-> "", l |-> <<PyStr("--id"), PyInt("0")>>]
ArgOther == [kind |-> "other", s |-> "", l |-> <<>>]
ArgSpecs == {ArgNone, ArgString, ArgList, ArgOther}

SeqsUpTo(S, n) == UNION {[1..k -> S] : k \in 0..n}

ClusterNames == {"exp1"}
\* the cluster names the reads are tried with: the empty name too
AllClusterNames == ClusterNames \cup {""}
EvaluatorCmds == {None, "python -u -m evaluator"}

agent_cmd == "python -u -m agent"
learner_cmd == "python -u -m learner"

infras_session == "infras-" \o cluster_name
agent_session == "agent-" \o cluster_name
learner_session == "learner-" \o cluster_name

SessionIds == {infras_session, agent_session, learner_session}

(***************************************************************************)
(* The multiplexer backend (TmuxRunner), from its interface contract:      *)
(* create a window (creating its session when needed), kill a window or a  *)
(* session (a no-op when absent), list sessions, list a session's windows. *)
(* Any call can fail with BackendUnavailable: st.budget is the number of   *)
(* calls the backend still answers (-1: it answers all of them).           *)
(***************************************************************************)
Call(c, s, w, cmd, ok) ==
    [call |-> c, session |-> s, window |-> w, cmd |-> cmd, ok |-> ok]

WindowNames(st, session) ==
    [i \in 1..Len(st.windows[session]) |-> st.windows[session][i].name]

Answered(st, c) ==
    [st EXCEPT !.calls = Append(@, c),
               !.budget = IF @ > 0 THEN @ - 1 ELSE @]

Failed(st, c, e) ==
    [st EXCEPT !.calls = Append(@, c), !.err = e]

\* A session exists exactly while it has a window: the first window creates
\* it, the death of its last window ends it.
CreateWindow(st, session, window, cmd) ==
    [st EXCEPT !.sessions = @ \cup {session},
               !.windows[session] = Append(@, [name |-> window, cmd |-> cmd])]

ReplaceWindow(st, session, window, cmd) ==
    [st EXCEPT !.windows[session] =
        [i \in 1..Len(@) |-> IF @[i].name = window
                             THEN [name |-> window, cmd |-> cmd] ELSE @[i]]]

KillWindow(st, session, window) ==
    LET rest == SelectSeq(st.windows[session], LAMBDA x : x.name # window)
    IN  [st EXCEPT !.windows[session] = rest,
                   !.sessions = IF rest = <<>> THEN @ \ {session} ELSE @]

KillSession(st, session) ==
    [st EXCEPT !.windows[session] = <<>>, !.sessions = @ \ {session}]

\* TmuxRunner.run(session_name, window_name, cmd)
tmux_run(st, session, window, cmd) ==
    IF st.err # "ok" THEN st
    ELSE IF st.budget = 0
    THEN Failed(st, Call("run", session, window, cmd, FALSE), "BackendUnavailable")
    ELSE IF window \in Range(WindowNames(st, session))
    THEN IF st.dup = "error"
         THEN Failed(st, Call("run", session, window, cmd, FALSE), "BackendError")
         ELSE ReplaceWindow(Answered(st, Call("run", session, window, cmd, TRUE)),
                            session, window, cmd)
    ELSE CreateWindow(Answered(st, Call("run", session, window, cmd, TRUE)),
                      session, window, cmd)

\* TmuxRunner.kill(session_name, window_name=None)
tmux_kill(st, session, window) ==
    IF st.err # "ok" THEN st
    ELSE IF st.budget = 0
    THEN Failed(st, Call("kill", session, window, "", FALSE), "BackendUnavailable")
    ELSE IF window = None
    THEN KillSession(Answered(st, Call("kill", session, window, "", TRUE)), session)
    ELSE KillWindow(Answered(st, Call("kill", session, window, "", TRUE)),
                    session, window)

\* TmuxRunner.list_session_names(): the state after the call; the value it
\* returns is st.sessions.
tmux_list_session_names(st) ==
    IF st.err # "ok" THEN st
    ELSE IF st.budget = 0
    THEN Failed(st, Call("list_session_names", "", "", "", FALSE), "BackendUnavailable")
    ELSE Answered(st, Call("list_session_names", "", "", "", TRUE))

\* TmuxRunner.list_window_names(session): the state after the call; the value
\* it returns is WindowNames(st, session), empty for an absent session.
tmux_list_window_names(st, session) ==
    IF st.err # "ok" THEN st
    ELSE IF st.budget = 0
    THEN Failed(st, Call("list_window_names", session, "", "", FALSE), "BackendUnavailable")
    ELSE Answered(st, Call("list_window_names", session, "", "", TRUE))

\* A capture call, with the scroll-back it asks for.
CaptureCall(c, s, w, history, ok) ==
    [call |-> c, session |-> s, window |-> w, cmd |-> "", ok |-> ok,
     history |-> history]

\* What a window's pane shows: the command line it was started with on the
\* visible screen, one line above it in the scroll-back.
PaneLines(st, session, window, history) ==
    LET w == CHOOSE x \in Range(st.windows[session]) : x.name = window
    IN  IF history > 0 THEN <<"[" \o window \o "]", "$ " \o w.cmd>>
        ELSE <<"$ " \o w.cmd>>

\* TmuxRunner.get_stdout(session, window, history): the state after the
\* call; the value it returns is PaneLines.
tmux_get_stdout(st, session, window, history) ==
    IF st.err # "ok" THEN st
    ELSE IF st.budget = 0
    THEN Failed(st, CaptureCall("get_stdout", session, window, history, FALSE),
                "BackendUnavailable")
    ELSE Answered(st, CaptureCall("get_stdout", session, window, history, TRUE))

\* TmuxRunner.check_error(session, window, history): the state after the
\* call; the value it returns is the error text found in the pane, None when
\* the pane shows none.  What processes have printed is not the
\* orchestrator's doing: errored is the set of panes showing an error.
tmux_check_error(st, session, window, history) ==
    IF st.err # "ok" THEN st
    ELSE IF st.budget = 0
    THEN Failed(st, CaptureCall("check_error", session, window, history, FALSE),
                "BackendUnavailable")
    ELSE Answered(st, CaptureCall("check_error", session, window, history, TRUE))

ErrorText(errored, session, window) ==
    IF <<session, window>> \in errored THEN "Traceback: " \o window ELSE None

(***************************************************************************)
(* TmuxCluster                                                             *)
(***************************************************************************)
\* A script reference and the command made of it are texts taken apart:
\* sequences of characters.
startswith(s, prefix) ==
    Len(s) >= Len(prefix) /\ SubSeq(s, 1, Len(prefix)) = prefix

endswith(s, suffix) ==
    Len(s) >= Len(suffix) /\ SubSeq(s, Len(s) - Len(suffix) + 1, Len(s)) = suffix

\* 'python', '.py', 'python -u ', 'python -u -m '
PYTHON == <<"p", "y", "t", "h", "o", "n">>
DOT_PY == <<".", "p", "y">>
PYTHON_U == <<"p", "y", "t", "h", "o", "n", " ", "-", "u", " ">>
PYTHON_U_M == <<"p", "y", "t", "h", "o", "n", " ", "-", "u", " ", "-", "m", " ">>

\* (variant: a path separator is not looked for)
_get_python_cmd_NoSeparator(python_script) ==
    IF startswith(python_script, PYTHON)
    THEN [err |-> "ok", cmd |-> python_script]
    ELSE IF endswith(python_script, DOT_PY)
    THEN [err |-> "ok", cmd |-> PYTHON_U \o python_script]
    ELSE [err |-> "ok", cmd |-> PYTHON_U_M \o python_script]

_get_python_cmd(python_script) ==
    IF startswith(python_script, PYTHON)
    THEN [err |-> "ok", cmd |-> python_script]
    ELSE IF ~endswith(python_script, DOT_PY) /\ "/" \in Range(python_script)
    THEN [err |-> "MalformedScriptReference", cmd |-> <<>>]
    ELSE IF endswith(python_script, DOT_PY)
    THEN [err |-> "ok", cmd |-> PYTHON_U \o python_script]
    ELSE [err |-> "ok", cmd |-> PYTHON_U_M \o python_script]

\* ' '.join(str(x) for x in cmd_args)
RECURSIVE Join(_)
Join(l) ==
    IF l = <<>> THEN ""
    ELSE IF Len(l) = 1 THEN Str(l[1])
    ELSE Str(l[1]) \o " " \o Join(Tail(l))

NormalizeArg(cmd_args) ==
    IF cmd_args.kind = "none" THEN ""
    ELSE IF cmd_args.kind = "str" THEN cmd_args.s
    ELSE Join(cmd_args.l)

\* (variant: the names are compared as given, not as strings)
_get_agent_info_RawNames(agent_names, agent_args_) ==
    LET names == [i \in 1..Len(agent_names) |-> Str(agent_names[i])]
    IN  IF Len(agent_names) # Cardinality(Range(agent_names))
        THEN [err |-> "DuplicateAgentName", names |-> <<>>, args |-> <<>>]
        ELSE IF Len(names) # Len(agent_args_)
        THEN [err |-> "ArityMismatch", names |-> <<>>, args |-> <<>>]
        ELSE IF \E i \in 1..Len(agent_args_) : agent_args_[i].kind = "other"
        THEN [err |-> "InvalidArgSpec", names |-> <<>>, args |-> <<>>]
        ELSE [err |-> "ok", names |-> names,
              args |-> [i \in 1..Len(agent_args_) |-> NormalizeArg(agent_args_[i])]]

\* The three assertions and the ValueError of _get_agent_info, in the order
\* the code reaches them.
_get_agent_info(agent_names, agent_args_) ==
    LET names == [i \in 1..Len(agent_names) |-> Str(agent_names[i])]
    IN  IF Len(names) # Cardinality(Range(names))
        THEN [err |-> "DuplicateAgentName", names |-> <<>>, args |-> <<>>]
        ELSE IF Len(names) # Len(agent_args_)
        THEN [err |-> "ArityMismatch", names |-> <<>>, args |-> <<>>]
        ELSE IF \E i \in 1..Len(agent_args_) : agent_args_[i].kind = "other"
        THEN [err |-> "InvalidArgSpec", names |-> <<>>, args |-> <<>>]
        ELSE [err |-> "ok", names |-> names,
              args |-> [i \in 1..Len(agent_args_) |-> NormalizeArg(agent_args_[i])]]

Groups == {"agent", "learner", "infras"}

\* the AssertionError of _session_group
InvalidGroup == "<InvalidGroup>"

\* (variant: no assertion, any other tag stands for the infras session)
_session_group_Default(group) ==
    IF group = "agent" THEN agent_session
    ELSE IF group = "learner" THEN learner_session
    ELSE infras_session

_session_group(group) ==
    IF group = "agent" THEN agent_session
    ELSE IF group = "learner" THEN learner_session
    ELSE IF group = "infras" THEN infras_session
    ELSE InvalidGroup

\* is_launched(group): the value, read from the backend as st has it.
is_launched(st, group) == _session_group(group) \in st.sessions

\* get_running_agents(): the value.
get_running_agents(st) == WindowNames(st, agent_session)

\* for ... in zip(agent_names, agent_args): self._tmux.run(...)
RECURSIVE RunAgents(_, _, _)
\* (variant: the windows are created last name first)
RunAgents_Reversed(st, names, args) ==
    IF names = <<>> \/ args = <<>> THEN st
    ELSE tmux_run(RunAgents(st, Tail(names), Tail(args)),
                  agent_session, names[1], agent_cmd \o " " \o args[1])

RunAgents(st, names, args) ==
    IF names = <<>> \/ args = <<>> THEN st
    ELSE RunAgents(tmux_run(st, agent_session, names[1], agent_cmd \o " " \o args[1]),
                   Tail(names), Tail(args))

\* (variant: no check against the agents already running)
add_agents_Unchecked(st, agent_names, agent_args) ==
    LET info == _get_agent_info(agent_names, agent_args)
        s1 == tmux_list_window_names(st, agent_session)
    IN  IF st.err # "ok" THEN st
        ELSE IF info.err # "ok" THEN [st EXCEPT !.err = info.err]
        ELSE IF s1.err # "ok" THEN s1
        ELSE RunAgents(s1, info.names, info.args)

add_agents(st, agent_names, agent_args) ==
    LET info == _get_agent_info(agent_names, agent_args)
        s1 == tmux_list_window_names(st, agent_session)
    IN  IF st.err # "ok" THEN st
        ELSE IF info.err # "ok" THEN [st EXCEPT !.err = info.err]
        ELSE IF s1.err # "ok" THEN s1
        ELSE IF Range(get_running_agents(s1)) \cap Range(info.names) # {}
        THEN [s1 EXCEPT !.err = "DuplicateRunningAgent"]
        ELSE RunAgents(s1, info.names, info.args)

\* for name in agent_names: self._tmux.kill(..., window_name=str(name))
RECURSIVE KillEach(_, _)
\* (variant: only the first name is killed)
KillEach_FirstOnly(st, names) ==
    IF names = <<>> THEN st
    ELSE tmux_kill(st, agent_session, Str(names[1]))

KillEach(st, names) ==
    IF names = <<>> THEN st
    ELSE KillEach(tmux_kill(st, agent_session, Str(names[1])), Tail(names))

\* (variant: a name that is not running is an error)
kill_agents_Strict(st, agent_names) ==
    LET s1 == tmux_list_session_names(st)
    IN  IF s1.err # "ok" THEN s1
        ELSE IF ~is_launched(s1, "agent")
        THEN [s1 EXCEPT !.err = "FleetNotLaunched"]
        ELSE IF ~(Range([i \in 1..Len(agent_names) |-> Str(agent_names[i])])
                    \subseteq Range(get_running_agents(s1)))
        THEN [s1 EXCEPT !.err = "NoSuchAgent"]
        ELSE KillEach(s1, agent_names)

\* (variant: no check that the agent session exists)
kill_agents_Unchecked(st, agent_names) ==
    KillEach(tmux_list_session_names(st), agent_names)

kill_agents(st, agent_names) ==
    LET s1 == tmux_list_session_names(st)
    IN  IF s1.err # "ok" THEN s1
        ELSE IF ~is_launched(s1, "agent")
        THEN [s1 EXCEPT !.err = "FleetNotLaunched"]
        ELSE KillEach(s1, agent_names)

\* (variant: the infrastructure session is left alone)
killall_NoInfras(st) ==
    tmux_kill(tmux_kill(st, agent_session, None), learner_session, None)

killall(st) ==
    tmux_kill(tmux_kill(tmux_kill(st, agent_session, None),
                        learner_session, None),
              infras_session, None)

\* self.config: the names and ports launch reads from it, their values left
\* symbolic (the two store names are different names)
replay_name == "replay"
ps_name == "ps"

RedisCmd(port) == "redis-server --port " \o port \o " --protected-mode no"

\* _get_tensorplex_cmd(script) for a dotted module path
_get_tensorplex_cmd(script) == "python -u -m " \o script \o " '<config.json>'"

LOGGERPLEX_SCRIPT == "surreal.session.run_loggerplex_server"
TENSORPLEX_SCRIPT == "surreal.session.run_tensorplex_server"

\* The six windows of the infrastructure session, in the order of the code.
InfraWindows ==
    << [name |-> "redis-" \o replay_name, cmd |-> RedisCmd("<replay.port>")],
       [name |-> "redis-" \o ps_name, cmd |-> RedisCmd("<ps.port>")],
       [name |-> "redis-" \o "plex", cmd |-> RedisCmd("<tensorplex.port>")],
       [name |-> "loggerplex", cmd |-> _get_tensorplex_cmd(LOGGERPLEX_SCRIPT)],
       [name |-> "tensorplex", cmd |-> _get_tensorplex_cmd(TENSORPLEX_SCRIPT)],
       [name |-> "tensorboard",
        cmd |-> "tensorboard --logdir <tensorplex.folder> --port <tensorplex.tb_port>"] >>

RECURSIVE RunEach(_, _, _)
RunEach(st, session, ws) ==
    IF ws = <<>> THEN st
    ELSE RunEach(tmux_run(st, session, ws[1].name, ws[1].cmd), session, Tail(ws))

\* "Infrastructure session"
LaunchInfras(st) ==
    LET s1 == tmux_list_session_names(st)
    IN  IF s1.err # "ok" THEN s1
        ELSE IF is_launched(s1, "infras") THEN s1
        ELSE RunEach(s1, infras_session, InfraWindows)

\* "Learner session"
LearnerWindows(st) ==
    IF st.evaluator_cmd # None
    THEN << [name |-> "learner", cmd |-> learner_cmd],
            [name |-> "evaluator", cmd |-> st.evaluator_cmd] >>
    ELSE << [name |-> "learner", cmd |-> learner_cmd] >>

\* (variant: the learner windows are created whether or not the session exists)
LaunchLearner_Unchecked(st) ==
    LET s1 == tmux_list_session_names(st)
    IN  IF s1.err # "ok" THEN s1
        ELSE RunEach(s1, learner_session, LearnerWindows(s1))

LaunchLearner(st) ==
    LET s1 == tmux_list_session_names(st)
    IN  IF s1.err # "ok" THEN s1
        ELSE IF is_launched(s1, "learner") THEN s1
        ELSE RunEach(s1, learner_session, LearnerWindows(s1))

\* (variant: the fleet is added whether or not the agent session exists)
LaunchAgents_Unchecked(st, agent_names, agent_args) ==
    LET s1 == tmux_list_session_names(st)
    IN  IF s1.err # "ok" THEN s1
        ELSE add_agents(s1, agent_names, agent_args)

\* (variant: the agent stage is skipped whatever sessions there are)
LaunchAgents_Skipped(st, agent_names, agent_args) ==
    LET s1 == tmux_list_session_names(st)
    IN  s1

\* "Agent session"
LaunchAgents(st, agent_names, agent_args) ==
    LET s1 == tmux_list_session_names(st)
    IN  IF s1.err # "ok" THEN s1
        ELSE IF is_launched(s1, "agent") THEN s1
        ELSE add_agents(s1, agent_names, agent_args)

\* (variant: the learner stage comes before the infrastructure stage)
launch_LearnerFirst(st, agent_names, agent_args) ==
    LaunchAgents(LaunchInfras(LaunchLearner(st)), agent_names, agent_args)

\* (variant: what a launch created is removed again when the backend fails)
launch_Rollback(st, agent_names, agent_args) ==
    LET r == LaunchAgents(LaunchLearner(LaunchInfras(st)), agent_names, agent_args)
    IN  IF r.err = "BackendUnavailable"
        THEN [r EXCEPT !.sessions = st.sessions, !.windows = st.windows]
        ELSE r

launch(st, agent_names, agent_args) ==
    LaunchAgents(LaunchLearner(LaunchInfras(st)), agent_names, agent_args)

\* is_launched(group), called from outside: the group tag is checked, then
\* the sessions are listed; st.out holds the value returned.
is_launched_call(st, group) ==
    IF _session_group(group) = InvalidGroup
    THEN [st EXCEPT !.err = "InvalidGroup"]
    ELSE LET s1 == tmux_list_session_names(st)
         IN  IF s1.err # "ok" THEN s1
             ELSE [s1 EXCEPT !.out = <<is_launched(s1, group)>>]

\* (variant: the windows listed are the learner session's)
get_running_agents_call_Learner(st) ==
    LET s1 == tmux_list_window_names(st, learner_session)
    IN  IF s1.err # "ok" THEN s1
        ELSE [s1 EXCEPT !.out = WindowNames(s1, learner_session)]

\* get_running_agents(), called from outside.
get_running_agents_call(st) ==
    LET s1 == tmux_list_window_names(st, agent_session)
    IN  IF s1.err # "ok" THEN s1
        ELSE [s1 EXCEPT !.out = get_running_agents(s1)]

\* the sessions in the order _iterate_all_windows visits them
AllSessions == <<agent_session, learner_session, infras_session>>

\* '{}:{}'.format(sess, win)
PaneKey(sess, win) == sess \o ":" \o win

\* '\n'.join(stdout)
RECURSIVE JoinLines(_)
JoinLines(lines) ==
    IF lines = <<>> THEN ""
    ELSE IF Len(lines) = 1 THEN lines[1]
    ELSE lines[1] \o "\n" \o JoinLines(Tail(lines))

\* the body of get_stdout's loop for the windows wins of one session;
\* group is None or a session name, window is None or what was passed,
\* turned into its string form when it is true
RECURSIVE StdoutEach(_, _, _, _, _, _)
StdoutEach(st, sess, wins, group, window, history) ==
    IF wins = <<>> \/ st.err # "ok" THEN st
    ELSE IF group # None /\ group # sess
    THEN StdoutEach(st, sess, Tail(wins), group, window, history)
    ELSE IF Truthy(window) /\ Str(window) # wins[1]
    THEN StdoutEach(st, sess, Tail(wins), group, window, history)
    ELSE LET s1 == tmux_get_stdout(st, sess, wins[1], history)
             entry == [key |-> PaneKey(sess, wins[1]),
                       text |-> JoinLines(PaneLines(st, sess, wins[1], history))]
         IN  IF s1.err # "ok" THEN s1
             ELSE StdoutEach([s1 EXCEPT !.out = Append(@, entry)],
                             sess, Tail(wins), group, window, history)

\* _iterate_all_windows, driving get_stdout's loop: the windows of a session
\* are listed when the loop reaches that session
RECURSIVE StdoutAll(_, _, _, _, _)
StdoutAll(st, sesss, group, window, history) ==
    IF sesss = <<>> \/ st.err # "ok" THEN st
    ELSE LET s1 == tmux_list_window_names(st, sesss[1])
         IN  StdoutAll(StdoutEach(s1, sesss[1], WindowNames(s1, sesss[1]),
                                  group, window, history),
                       Tail(sesss), group, window, history)

\* (variant: a window that is false in a condition passes for "no window")
get_stdout_FalsyWindow(st, group, window, history) ==
    IF group = None /\ Truthy(window)
    THEN [st EXCEPT !.err = "InvalidArgument"]
    ELSE IF group # None /\ _session_group(group) = InvalidGroup
    THEN [st EXCEPT !.err = "InvalidGroup"]
    ELSE StdoutAll(st, AllSessions,
                   IF group = None THEN None ELSE _session_group(group),
                   window, history)

\* get_stdout(group=None, window=None, history=0); st.out holds the
\* OrderedDict returned, as the sequence of its entries.
get_stdout(st, group, window, history) ==
    IF group = None /\ window # PyNone
    THEN [st EXCEPT !.err = "InvalidArgument"]
    ELSE IF group # None /\ _session_group(group) = InvalidGroup
    THEN [st EXCEPT !.err = "InvalidGroup"]
    ELSE StdoutAll(st, AllSessions,
                   IF group = None THEN None ELSE _session_group(group),
                   window, history)

\* history=100 in check_error
ErrorHistory == 100

RECURSIVE ErrorEach(_, _, _, _)
\* (variant: an entry for every pane, error or not)
ErrorEach_All(st, sess, wins, errored) ==
    IF wins = <<>> \/ st.err # "ok" THEN st
    ELSE LET s1 == tmux_check_error(st, sess, wins[1], ErrorHistory)
             err == ErrorText(errored, sess, wins[1])
         IN  IF s1.err # "ok" THEN s1
             ELSE ErrorEach([s1 EXCEPT !.out =
                                Append(@, [key |-> PaneKey(sess, wins[1]),
                                           text |-> err])],
                            sess, Tail(wins), errored)

ErrorEach(st, sess, wins, errored) ==
    IF wins = <<>> \/ st.err # "ok" THEN st
    ELSE LET s1 == tmux_check_error(st, sess, wins[1], ErrorHistory)
             err == ErrorText(errored, sess, wins[1])
         IN  IF s1.err # "ok" THEN s1
             ELSE ErrorEach(IF err # None
                            THEN [s1 EXCEPT !.out =
                                    Append(@, [key |-> PaneKey(sess, wins[1]),
                                               text |-> err])]
                            ELSE s1,
                            sess, Tail(wins), errored)

RECURSIVE ErrorAll(_, _, _)
ErrorAll(st, sesss, errored) ==
    IF sesss = <<>> \/ st.err # "ok" THEN st
    ELSE LET s1 == tmux_list_window_names(st, sesss[1])
         IN  ErrorAll(ErrorEach(s1, sesss[1], WindowNames(s1, sesss[1]), errored),
                      Tail(sesss), errored)

\* check_error(); st.out holds the OrderedDict returned.
check_error(st, errored) == ErrorAll(st, AllSessions, errored)

\* check_error takes no argument besides self: a call that passes a group or
\* a window is a TypeError before the body runs.
check_error_call(st, group, window, errored) ==
    IF group # None \/ window # PyNone
    THEN [st EXCEPT !.err = "TypeError"]
    ELSE check_error(st, errored)

(***************************************************************************)
(* Actions.  The caller is idle or has just had a call return; last holds  *)
(* the returned call until the caller moves on (Return) or, after a        *)
(* launch, calls launch again with the same arguments (Relaunch).  The     *)
(* backend changes outside the orchestrator only between calls.            *)
(***************************************************************************)
Current == [sessions |-> sessions, windows |-> windows]

\* The backend as a method finds it, with the number of calls it will answer.
Start(budget) ==
    [sessions |-> sessions, windows |-> windows, calls |-> <<>>, err |-> "ok",
     budget |-> budget, dup |-> dup_policy, evaluator_cmd |-> evaluator_cmd,
     out |-> <<>>]

Unlimited == -1
Budgets == 0..MaxBudget
Fleets == SeqsUpTo(AgentIds, MaxFleet)
\* agent_args: up to MaxFleet entries, of one kind up to the last one, which
\* is of any kind
ArgLists ==
    {[i \in 1..k |-> IF i < k THEN x ELSE y] :
        x \in ArgSpecs, y \in ArgSpecs, k \in 0..MaxFleet}
\* the well-formed agent_args for these names: one token list per name
PlainArgs(names) == [i \in 1..Len(names) |-> ArgList]

NoWindows == [s \in SessionIds |-> <<>>]

NoGoal == [sessions |-> {}, windows |-> NoWindows, err |-> "none"]

Idle ==
    [op |-> "idle", names |-> <<>>, args |-> <<>>, budget |-> Unlimited,
     err |-> "ok", calls |-> <<>>,
     pre |-> [sessions |-> {}, windows |-> NoWindows],
     repeat |-> FALSE, retry |-> FALSE, goal |-> NoGoal,
     group |-> None, window |-> PyNone, history |-> 0, errored |-> {},
     out |-> <<>>, gone |-> <<>>, script |-> <<>>, emptied |-> FALSE]

Record(op, names, args, budget, r, repeat, retry, goal) ==
    [op |-> op, names |-> names, args |-> args, budget |-> budget,
     err |-> r.err, calls |-> r.calls,
     pre |-> [sessions |-> sessions, windows |-> windows],
     repeat |-> repeat, retry |-> retry, goal |-> goal,
     group |-> None, window |-> PyNone, history |-> 0, errored |-> {},
     out |-> r.out,
     \* the agent windows that disappeared right before this call
     gone |-> IF last.op = "external" THEN last.names ELSE <<>>,
     script |-> <<>>,
     \* this call comes right after the kill_agents that ended the agent
     \* session
     emptied |-> /\ last.op = "kill_agents" /\ last.err = "ok"
                 /\ agent_session \in last.pre.sessions
                 /\ agent_session \notin sessions]

\* the record of a read, with the filter it was given
Query(op, group, window, history, errored, r) ==
    [Record(op, <<>>, <<>>, Unlimited, r, FALSE, FALSE, NoGoal)
        EXCEPT !.group = group, !.window = window, !.history = history,
               !.errored = errored]

StrNames(names) == [i \in 1..Len(names) |-> Str(names[i])]

\* s without the entries that are in the set gone
Without(s, gone) == SelectSeq(s, LAMBDA x : x \notin gone)

\* one orchestrator only
NoProcs == <<>>

Init ==
    /\ cluster_name \in ClusterNames
    /\ evaluator_cmd \in EvaluatorCmds
    /\ dup_policy = "error"
    /\ sessions = {}
    /\ windows = NoWindows
    /\ last = Idle
    /\ fleet = <<>>
    /\ clean = TRUE
    /\ procs = NoProcs

DoLaunch(agent_names, agent_args, budget) ==
    LET r == launch(Start(budget), agent_names, agent_args)
        \* this call repeats a launch that returned without error
        repeat == last.op = "launch" /\ last.err = "ok"
        \* this call retries a launch that the backend's failure aborted
        retry == last.op = "launch" /\ last.err = "BackendUnavailable"
        full == launch(Start(Unlimited), agent_names, agent_args)
        \* what the first of a run of retried launches would have left, had
        \* the backend answered every call
        goal == IF retry THEN last.goal
                ELSE [sessions |-> full.sessions, windows |-> full.windows,
                      err |-> full.err]
    IN  /\ sessions' = r.sessions
        /\ windows' = r.windows
        /\ last' = Record("launch", agent_names, agent_args, budget, r,
                          repeat, retry, goal)
        /\ clean' = (clean /\ r.err = "ok")
        /\ fleet' = IF clean' /\ agent_session \notin sessions
                    THEN fleet \o StrNames(agent_names)
                    ELSE IF clean' THEN fleet ELSE <<>>
        /\ UNCHANGED <<procs, cluster_name, evaluator_cmd, dup_policy>>

Launch(agent_names, agent_args, budget) ==
    /\ last.op = "idle"
    /\ DoLaunch(agent_names, agent_args, budget)

\* launch again, at once, with the arguments of the launch that just returned
Relaunch(budget) ==
    /\ last.op = "launch"
    /\ DoLaunch(last.names, last.args, budget)

DoAddAgents(agent_names, agent_args, budget) ==
    LET r == add_agents(Start(budget), agent_names, agent_args)
    IN  /\ sessions' = r.sessions
        /\ windows' = r.windows
        /\ last' = Record("add_agents", agent_names, agent_args, budget, r,
                          FALSE, FALSE, NoGoal)
        /\ clean' = (clean /\ r.err = "ok")
        /\ fleet' = IF clean' THEN fleet \o StrNames(agent_names) ELSE <<>>
        /\ UNCHANGED <<procs, cluster_name, evaluator_cmd, dup_policy>>

\* launch right after a kill_agents that removed the last running agent
LaunchAfterKill(agent_names, agent_args) ==
    /\ last.op = "kill_agents"
    /\ last.err = "ok"
    /\ agent_session \in last.pre.sessions
    /\ agent_session \notin sessions
    /\ DoLaunch(agent_names, agent_args, Unlimited)

AddAgents(agent_names, agent_args, budget) ==
    /\ last.op = "idle"
    /\ DoAddAgents(agent_names, agent_args, budget)

\* add_agents for the agents whose windows have just disappeared
AddAgentsAgain ==
    /\ last.op = "external"
    /\ last.names # <<>>
    /\ DoAddAgents(last.names, PlainArgs(last.names), Unlimited)

KillAgents(agent_names, budget) ==
    LET r == kill_agents(Start(budget), agent_names)
    IN  /\ last.op = "idle"
        /\ sessions' = r.sessions
        /\ windows' = r.windows
        /\ last' = Record("kill_agents", agent_names, <<>>, budget, r,
                          FALSE, FALSE, NoGoal)
        /\ clean' = (clean /\ r.err = "ok")
        /\ fleet' = IF clean' THEN Without(fleet, Range(StrNames(agent_names)))
                    ELSE <<>>
        /\ UNCHANGED <<procs, cluster_name, evaluator_cmd, dup_policy>>

\* A killall that returns leaves the cluster as it was constructed.
KillAll(budget) ==
    LET r == killall(Start(budget))
    IN  /\ last.op = "idle"
        /\ sessions' = r.sessions
        /\ windows' = r.windows
        /\ last' = Record("killall", <<>>, <<>>, budget, r, FALSE, FALSE, NoGoal)
        /\ clean' = (r.err = "ok")
        /\ fleet' = <<>>
        /\ UNCHANGED <<procs, cluster_name, evaluator_cmd, dup_policy>>

\* The caller moves on from the call that returned.
Return ==
    /\ last.op # "idle"
    /\ last' = Idle
    /\ UNCHANGED <<procs, cluster_name, evaluator_cmd, dup_policy, sessions, windows,
                   fleet, clean>>

\* Something outside the orchestrator changes the backend; last notes the
\* agent windows that went with it.
External(r) ==
    LET here == WindowNames(Current, agent_session)
        left == Range(WindowNames(r, agent_session))
        gone == SelectSeq(here, LAMBDA n : n \notin left)
    IN  /\ last.op = "idle"
        /\ sessions' = r.sessions
        /\ windows' = r.windows
        /\ last' = [Idle EXCEPT !.op = "external", !.pre = Current,
                                !.names = [i \in 1..Len(gone) |-> PyStr(gone[i])]]
        /\ clean' = FALSE
        /\ fleet' = <<>>
        /\ UNCHANGED <<procs, cluster_name, evaluator_cmd, dup_policy>>

\* A read returns: whatever it did to the backend is kept.
Read(rec, r) ==
    /\ sessions' = r.sessions
    /\ windows' = r.windows
    /\ last' = rec
    /\ UNCHANGED <<procs, cluster_name, evaluator_cmd, dup_policy, fleet, clean>>

\* the group tags tried: the three there are, and the one that only
\* get_stdout's docstring knows
GroupArgs == {None, "agent", "learner", "infras", "tensorplex"}
WindowArgs == {PyNone, PyStr("learner")} \cup AgentIds
Histories == {0, ErrorHistory}

\* the panes there are, and the sets of them that may show an error
Panes == UNION {{<<s, n>> : n \in Range(WindowNames(Current, s))} : s \in SessionIds}
ErroredSets == {E \in SUBSET Panes : Cardinality(E) <= MaxErrored}

IsLaunched(group) ==
    LET r == is_launched_call(Start(Unlimited), group)
    IN  /\ last.op = "idle"
        /\ Read(Query("is_launched", group, PyNone, 0, {}, r), r)

GetRunningAgents ==
    LET r == get_running_agents_call(Start(Unlimited))
    IN  /\ last.op \in {"idle", "external"}
        /\ Read(Query("get_running_agents", None, PyNone, 0, {}, r), r)

GetStdout(group, window, history) ==
    LET r == get_stdout(Start(Unlimited), group, window, history)
    IN  /\ last.op = "idle"
        /\ Read(Query("get_stdout", group, window, history, {}, r), r)

CheckError(group, window, errored) ==
    LET r == check_error_call(Start(Unlimited), group, window, errored)
    IN  /\ last.op = "idle"
        /\ Read(Query("check_error", group, window, ErrorHistory, errored, r), r)

\* An agent's process ends (or an operator closes its window) outside the
\* orchestrator.
AgentWindowDies ==
    \E i \in 1..Len(windows[agent_session]) :
        External(KillWindow(Start(Unlimited), agent_session,
                            windows[agent_session][i].name))

\* A whole session is closed outside the orchestrator.
SessionDies ==
    \E s \in sessions : External(KillSession(Start(Unlimited), s))

\* The backend answers every call.
Next ==
    \/ \E names \in Fleets, args \in ArgLists : Launch(names, args, Unlimited)
    \/ Relaunch(Unlimited)
    \/ \E names \in Fleets : LaunchAfterKill(names, PlainArgs(names))
    \/ \E names \in Fleets, args \in ArgLists : AddAgents(names, args, Unlimited)
    \/ \E names \in Fleets : KillAgents(names, Unlimited)
    \/ KillAll(Unlimited)
    \/ Return
    \/ AgentWindowDies
    \/ SessionDies

Spec == Init /\ [][Next]_vars

\* The backend may become unavailable in the middle of any call.
NextFail ==
    \/ \E names \in Fleets, b \in Budgets \cup {Unlimited} :
            Launch(names, PlainArgs(names), b)
    \/ \E b \in Budgets \cup {Unlimited} : Relaunch(b)
    \/ \E names \in Fleets, b \in Budgets \cup {Unlimited} :
            AddAgents(names, PlainArgs(names), b)
    \/ \E names \in Fleets, b \in Budgets \cup {Unlimited} : KillAgents(names, b)
    \/ \E b \in Budgets \cup {Unlimited} : KillAll(b)
    \/ Return
    \/ AgentWindowDies
    \/ SessionDies

SpecFail == Init /\ [][NextFail]_vars

\* The reads, between the calls that change the cluster, for a cluster of
\* any name.
InitQuery ==
    /\ cluster_name \in AllClusterNames
    /\ evaluator_cmd \in EvaluatorCmds
    /\ dup_policy = "error"
    /\ sessions = {}
    /\ windows = NoWindows
    /\ last = Idle
    /\ fleet = <<>>
    /\ clean = TRUE
    /\ procs = NoProcs

NextQuery ==
    \/ \E names \in Fleets : Launch(names, PlainArgs(names), Unlimited)
    \/ \E names \in Fleets : AddAgents(names, PlainArgs(names), Unlimited)
    \/ AddAgentsAgain
    \/ \E names \in Fleets : KillAgents(names, Unlimited)
    \/ KillAll(Unlimited)
    \/ Return
    \/ AgentWindowDies
    \/ SessionDies
    \/ \E group \in GroupArgs : IsLaunched(group)
    \/ GetRunningAgents
    \/ \E group \in GroupArgs, window \in WindowArgs, history \in Histories :
            GetStdout(group, window, history)
    \/ \E group \in GroupArgs, window \in WindowArgs, errored \in ErroredSets :
            CheckError(group, window, errored)

SpecQuery == InitQuery /\ [][NextQuery]_vars

\* The script references tried: the spec's four examples and every text made
\* of an optional 'python', up to MaxScript characters and an optional
\* '.py' or '.p'.
ScriptChars == {"a", ".", "/", "p", "y"}
ScriptExamples ==
    {<<"f", "o", "o", ".", "b", "a", "r", ".", "b", "a", "z">>,
     <<"r", "u", "n", ".", "p", "y">>,
     <<"s", "c", "r", "i", "p", "t", "s", "/", "r", "u", "n", ".", "p", "y">>,
     <<"p", "k", "g", "/", "r", "u", "n">>}
ScriptRefs ==
    ScriptExamples \cup
    {head \o body \o tail :
        head \in {<<>>, PYTHON},
        body \in SeqsUpTo(ScriptChars, MaxScript),
        tail \in {<<>>, DOT_PY, <<".", "p">>}}

\* __init__ turns a script reference into a command.
GetPythonCmd(python_script) ==
    LET r == _get_python_cmd(python_script)
    IN  /\ last.op = "idle"
        /\ last' = [Idle EXCEPT !.op = "_get_python_cmd", !.err = r.err,
                                !.script = python_script, !.out = r.cmd]
        /\ UNCHANGED <<procs, cluster_name, evaluator_cmd, dup_policy, sessions,
                       windows, fleet, clean>>

NextCmd ==
    \/ \E python_script \in ScriptRefs : GetPythonCmd(python_script)
    \/ Return

SpecCmd == InitQuery /\ [][NextCmd]_vars

\* Two orchestrator instances of one cluster name, each in one add_agents
\* call; a step is what one of them does up to and including its next
\* backend call.  The backend refuses a create for a window name in use or
\* lets the last create win.
Procs == {1, 2}
DupPolicies == {"error", "replace"}

\* the arguments of the two calls differ, so that the windows they create do
ConcArgs(p, names) == [i \in 1..Len(names) |-> IF p = 1 THEN ArgNone ELSE ArgList]

InitConc ==
    /\ cluster_name \in ClusterNames
    /\ evaluator_cmd = None
    /\ dup_policy \in DupPolicies
    /\ sessions = {}
    /\ windows = NoWindows
    /\ last = Idle
    /\ fleet = <<>>
    /\ clean = TRUE
    /\ \E n1 \in Fleets, n2 \in Fleets :
          procs = [p \in Procs |->
                     [pc |-> "check", err |-> "ok",
                      agent_names |-> IF p = 1 THEN n1 ELSE n2,
                      names |-> <<>>, args |-> <<>>,
                      \* the names it created a window for: first, or with a
                      \* window of that name there already
                      first |-> {}, late |-> {}]]

\* add_agents up to its check against the agents running
ConcCheck(p) ==
    LET me == procs[p]
        info == _get_agent_info(me.agent_names, ConcArgs(p, me.agent_names))
        s1 == tmux_list_window_names(Start(Unlimited), agent_session)
        err == IF info.err # "ok" THEN info.err
               ELSE IF Range(get_running_agents(s1)) \cap Range(info.names) # {}
               THEN "DuplicateRunningAgent"
               ELSE "ok"
    IN  /\ me.pc = "check"
        /\ procs' = [procs EXCEPT ![p] =
                        [me EXCEPT !.pc = IF err # "ok" \/ info.names = <<>>
                                          THEN "done" ELSE "run",
                                   !.err = err,
                                   !.names = info.names, !.args = info.args]]
        /\ UNCHANGED <<cluster_name, evaluator_cmd, dup_policy, sessions,
                       windows, last, fleet, clean>>

\* one turn of add_agents' loop: the next self._tmux.run
ConcRun(p) ==
    LET me == procs[p]
        r == tmux_run(Start(Unlimited), agent_session, me.names[1],
                      agent_cmd \o " " \o me.args[1])
        there == me.names[1] \in Range(WindowNames(Current, agent_session))
    IN  /\ me.pc = "run"
        /\ sessions' = r.sessions
        /\ windows' = r.windows
        /\ procs' = [procs EXCEPT ![p] =
                        [me EXCEPT !.pc = IF r.err # "ok" \/ Len(me.names) = 1
                                          THEN "done" ELSE "run",
                                   !.err = r.err,
                                   !.names = Tail(@), !.args = Tail(@),
                                   !.first = IF there THEN @ ELSE @ \cup {me.names[1]},
                                   !.late = IF there THEN @ \cup {me.names[1]} ELSE @]]
        /\ UNCHANGED <<cluster_name, evaluator_cmd, dup_policy, last, fleet, clean>>

NextConc == \E p \in Procs : ConcCheck(p) \/ ConcRun(p)

SpecConc == InitConc /\ [][NextConc]_vars

TypeOK ==
    /\ sessions \subseteq SessionIds
    /\ DOMAIN windows = SessionIds
    /\ last.err \in {"ok", "DuplicateAgentName", "ArityMismatch", "InvalidArgSpec",
                     "DuplicateRunningAgent", "FleetNotLaunched",
                     "BackendUnavailable", "BackendError", "InvalidGroup",
                     "InvalidArgument", "TypeError",
                     "MalformedScriptReference"}

(***************************************************************************)
(* Properties.  Each is about the call that has just returned: last.pre is *)
(* the backend as the call found it, sessions / windows as it left it.     *)
(***************************************************************************)
\* the calls of one kind among those a method issued (answered or not)
CallsOf(calls, kind) == SelectSeq(calls, LAMBDA c : c.call = kind)

Creates(calls) == CallsOf(calls, "run")

Kills(calls) == CallsOf(calls, "kill")

SessionsOf(calls) == [i \in 1..Len(calls) |-> calls[i].session]

IsPrefix(s, t) == Len(s) <= Len(t) /\ \A i \in 1..Len(s) : s[i] = t[i]

HasDuplicates(names) == Len(names) # Cardinality(Range(StrNames(names)))

ValidationErrors == {"DuplicateAgentName", "ArityMismatch", "InvalidArgSpec"}

\* C1: a launch that immediately follows a launch with the same arguments
\* that returned without error issues no create-window call and leaves
\* every session and window as it was.
C1_LaunchIdempotent ==
    (last.op = "launch" /\ last.repeat)
        => /\ Creates(last.calls) = <<>>
           /\ Kills(last.calls) = <<>>
           /\ Current = last.pre

C1_Witness ==
    /\ last.op = "launch" /\ last.repeat /\ last.err = "ok"
    /\ Len(last.names) = 2
    /\ sessions = SessionIds
    /\ evaluator_cmd # None

\* C2: when a launch that the backend's failure aborted is retried with the
\* same arguments and the retry returns without error, every window that
\* the launch would have created had the backend answered is running.
C2_RetryCompletesLaunch ==
    (last.op = "launch" /\ last.retry /\ last.err = "ok" /\ last.goal.err = "ok")
        => \A s \in SessionIds :
              Range(last.goal.windows[s]) \subseteq Range(windows[s])

\* C3: launch issues no create or kill call into a session that existed
\* when it was called and leaves that session's windows as they were; when
\* the agent session existed, the fleet arguments are not even validated.
C3_AbsentChecksIndependent ==
    last.op = "launch"
        => /\ \A s \in last.pre.sessions :
                /\ windows[s] = last.pre.windows[s]
                /\ \A i \in 1..Len(last.calls) :
                      last.calls[i].call \in {"run", "kill"}
                          => last.calls[i].session # s
           /\ agent_session \in last.pre.sessions
                => last.err \notin ValidationErrors \cup {"DuplicateRunningAgent"}

C3_Witness ==
    /\ last.op = "launch" /\ last.err = "ok"
    /\ last.pre.sessions = {agent_session, infras_session}
    /\ HasDuplicates(last.names)
    /\ Len(Creates(last.calls)) = 2
    /\ windows[learner_session] # <<>>

\* C4: an add_agents call that names an agent which is running fails,
\* creates no window for any of its names and leaves every window as it
\* was; the failure is DuplicateRunningAgent unless the arguments are
\* rejected before the backend is asked (C5).
C4_AddAgentsAllOrNothing ==
    (/\ last.op = "add_agents"
     /\ Range(StrNames(last.names))
            \cap Range(WindowNames(last.pre, agent_session)) # {})
        => /\ last.err # "ok"
           /\ Creates(last.calls) = <<>>
           /\ Current = last.pre
           /\ last.err \notin ValidationErrors => last.err = "DuplicateRunningAgent"
           /\ (~HasDuplicates(last.names) /\ Len(last.names) = Len(last.args)
                 /\ \A i \in 1..Len(last.args) : last.args[i].kind # "other")
                => last.err = "DuplicateRunningAgent"

\* an int name whose string form is running, together with a name that is
\* not running
C4_Witness ==
    /\ last.op = "add_agents" /\ last.err = "DuplicateRunningAgent"
    /\ last.names = <<PyStr("a"), PyInt("0")>>
    /\ WindowNames(last.pre, agent_session) = <<"0">>
    /\ WindowNames(Current, agent_session) = <<"0">>

\* C5: add_agents with two names of the same string form fails with
\* DuplicateAgentName, and with lists of different lengths (and distinct
\* names: the duplicate check comes first) with ArityMismatch; in both
\* cases no backend call of any kind is issued.
C5_AddAgentsValidatesFirst ==
    last.op = "add_agents"
        => /\ HasDuplicates(last.names) => last.err = "DuplicateAgentName"
           /\ (~HasDuplicates(last.names) /\ Len(last.names) # Len(last.args))
                => last.err = "ArityMismatch"
           /\ (HasDuplicates(last.names) \/ Len(last.names) # Len(last.args))
                => last.calls = <<>> /\ Current = last.pre

C5_Witness ==
    /\ last.op = "add_agents" /\ last.err = "DuplicateAgentName"
    /\ last.names = <<PyInt("0"), PyStr("0")>>
    /\ Len(last.args) = 2
    /\ last.calls = <<>>

\* C6: a launch with an invalid fleet (duplicate names or lists of different
\* lengths) on a cluster with no session fails with the validation error and
\* has created no window in any session.
C6_LaunchValidatesFirst ==
    (/\ last.op = "launch"
     /\ last.pre.sessions = {}
     /\ (HasDuplicates(last.names) \/ Len(last.names) # Len(last.args)))
        => /\ last.err \in {"DuplicateAgentName", "ArityMismatch"}
           /\ Creates(last.calls) = <<>>
           /\ sessions = {}
           /\ windows = NoWindows

\* C7: as long as every call has succeeded and nothing happened outside the
\* orchestrator, get_running_agents() is the sequence of the names created
\* and not killed since, each once, in creation order.
C7_FleetFollowsOperations ==
    clean => /\ get_running_agents(Current) = fleet
             /\ Len(fleet) = Cardinality(Range(fleet))

\* an agent was killed and added again: it is now the youngest
C7_Witness ==
    /\ clean
    /\ last.op = "add_agents"
    /\ last.names = <<PyStr("a")>>
    /\ WindowNames(last.pre, agent_session) = <<"0">>
    /\ fleet = <<"0", "a">>

AllLaunched == \A g \in Groups : is_launched(Current, g)

\* C8 as stated: after a launch from no session that returns without error
\* all three groups are launched and get_running_agents() is the names given.
C8_LaunchFromNothing ==
    (last.op = "launch" /\ last.pre.sessions = {} /\ last.err = "ok")
        => /\ AllLaunched
           /\ get_running_agents(Current) = StrNames(last.names)

\* C8, amended: the agent group is launched exactly when the fleet is not
\* empty; infras and learner are launched and get_running_agents() is the
\* names given, as strings, in the given order, in every case.
C8_LaunchFromNothing_NonEmpty ==
    (last.op = "launch" /\ last.pre.sessions = {} /\ last.err = "ok")
        => /\ is_launched(Current, "infras")
           /\ is_launched(Current, "learner")
           /\ is_launched(Current, "agent") <=> last.names # <<>>
           /\ get_running_agents(Current) = StrNames(last.names)

C8_Witness ==
    /\ last.op = "launch" /\ last.pre.sessions = {} /\ last.err = "ok"
    /\ last.names = <<PyInt("0"), PyStr("a")>>
    /\ AllLaunched
    /\ get_running_agents(Current) = <<"0", "a">>

KillAllCalls ==
    << Call("kill", agent_session, None, "", TRUE),
       Call("kill", learner_session, None, "", TRUE),
       Call("kill", infras_session, None, "", TRUE) >>

\* C9: killall issues session kills for the agent, learner and infras
\* sessions in that order and nothing else; it fails only when the backend
\* does not answer, never because a session is absent; and when it returns
\* none of the three groups is launched.
C9_KillAll ==
    last.op = "killall"
        => /\ last.err \in {"ok", "BackendUnavailable"}
           /\ last.err = "BackendUnavailable" <=> last.budget \in 0..2
           /\ SessionsOf(last.calls)
                = SubSeq(SessionsOf(KillAllCalls), 1, Len(last.calls))
           /\ last.err = "ok"
                => /\ last.calls = KillAllCalls
                   /\ \A g \in Groups : ~is_launched(Current, g)
                   /\ windows = NoWindows

C9_Witness ==
    /\ last.op = "killall" /\ last.err = "ok"
    /\ last.pre.sessions = {infras_session}
    /\ Len(last.pre.windows[infras_session]) = 2
    /\ sessions = {}

\* C10: kill_agents called while the agent session does not exist fails
\* with FleetNotLaunched (with BackendUnavailable only when the backend does
\* not answer the session listing), issues no kill call and leaves every
\* session as it was.
C10_KillAgentsNotLaunched ==
    (last.op = "kill_agents" /\ agent_session \notin last.pre.sessions)
        => /\ last.err = IF last.budget = 0 THEN "BackendUnavailable"
                         ELSE "FleetNotLaunched"
           /\ Kills(last.calls) = <<>>
           /\ Creates(last.calls) = <<>>
           /\ Current = last.pre

C10_Witness ==
    /\ last.op = "kill_agents" /\ last.err = "FleetNotLaunched"
    /\ last.names # <<>>
    /\ last.pre.sessions = {infras_session, learner_session}
    /\ sessions = {infras_session, learner_session}

\* C11: kill_agents called while the agent session exists raises no error;
\* it removes exactly the agent windows whose names are the string forms of
\* the names given, so a name without a window changes nothing, and it
\* leaves the other agent windows and the other sessions as they were.
C11_KillAgentsNoMatchIsNoOp ==
    (last.op = "kill_agents" /\ agent_session \in last.pre.sessions)
        => /\ last.err = "ok"
           /\ windows[agent_session]
                = SelectSeq(last.pre.windows[agent_session],
                            LAMBDA w : w.name \notin Range(StrNames(last.names)))
           /\ (Range(StrNames(last.names))
                  \cap Range(WindowNames(last.pre, agent_session)) = {})
                => get_running_agents(Current) = get_running_agents(last.pre)
           /\ \A s \in SessionIds \ {agent_session} :
                 windows[s] = last.pre.windows[s]
           /\ Creates(last.calls) = <<>>

\* a name that matches no window: nothing changes
C11_Witness ==
    /\ last.op = "kill_agents" /\ last.err = "ok"
    /\ last.names = <<PyStr("a")>>
    /\ WindowNames(last.pre, agent_session) = <<"0">>
    /\ WindowNames(Current, agent_session) = <<"0">>

\* the panes of the backend st, as (session, window name) pairs
PanesOf(st) ==
    UNION {{<<s, n>> : n \in Range(WindowNames(st, s))} : s \in SessionIds}

\* the session a group tag stands for
SessionOf(group) ==
    IF group = "agent" THEN "agent-" \o cluster_name
    ELSE IF group = "learner" THEN "learner-" \o cluster_name
    ELSE "infras-" \o cluster_name

\* the text of the pane of window n of session s, as get_stdout returns it
PaneText(st, s, n, history) ==
    LET w == CHOOSE x \in Range(st.windows[s]) : x.name = n
    IN  IF history > 0 THEN "[" \o n \o "]\n$ " \o w.cmd ELSE "$ " \o w.cmd

KeysOf(out) == {out[i].key : i \in 1..Len(out)}

\* C12: get_stdout that returns has one entry for exactly the windows that
\* exist when it is called and pass the filter: all of them without a
\* group, those of the group's session with a group, and with a window
\* identifier only the window named by the identifier's string form,
\* whatever the identifier is; an entry has the key "session:window" and the
\* pane's lines joined by newlines as its text.
C12_StdoutEntries ==
    (last.op = "get_stdout" /\ last.err = "ok")
        => /\ KeysOf(last.out)
                = {PaneKey(p[1], p[2]) :
                     p \in {q \in PanesOf(last.pre) :
                              /\ last.group # None => q[1] = SessionOf(last.group)
                              /\ last.window # PyNone => q[2] = Str(last.window)}}
           /\ Len(last.out) = Cardinality(KeysOf(last.out))
           /\ \A i \in 1..Len(last.out) :
                \E q \in PanesOf(last.pre) :
                    /\ last.out[i].key = q[1] \o ":" \o q[2]
                    /\ last.out[i].text = PaneText(last.pre, q[1], q[2], last.history)

\* C13: get_stdout given a window and no group fails with InvalidArgument,
\* whatever the window value is, and issues no backend call.
C13_WindowNeedsGroup ==
    (last.op = "get_stdout" /\ last.group = None /\ last.window # PyNone)
        => /\ last.err = "InvalidArgument"
           /\ last.calls = <<>>
           /\ last.out = <<>>
           /\ Current = last.pre

\* the window given is the int 0, with agents running
C13_Witness ==
    /\ last.op = "get_stdout" /\ last.group = None
    /\ last.window = PyInt("0")
    /\ last.err = "InvalidArgument"
    /\ Len(windows[agent_session]) = 2

\* the calls that capture a pane
Captures(calls) ==
    SelectSeq(calls, LAMBDA c : c.call \in {"get_stdout", "check_error"})

\* the backend st, as a method called now would find it
AsStart(st) ==
    [Start(Unlimited) EXCEPT !.sessions = st.sessions, !.windows = st.windows]

\* C14 (as stated): check_error(group, window) returns, for the panes that
\* get_stdout visits under the same group and window filter, an entry keyed
\* "session:window" exactly for those showing an error in a scroll-back of
\* 100 lines; its keys are among get_stdout's for the same filter.
C14_CheckErrorFiltered ==
    last.op = "check_error"
        => /\ last.err = "ok"
           /\ KeysOf(last.out)
                = {PaneKey(p[1], p[2]) :
                     p \in {q \in PanesOf(last.pre) \cap last.errored :
                              /\ last.group # None => q[1] = SessionOf(last.group)
                              /\ last.window # PyNone => q[2] = Str(last.window)}}
           /\ \A i \in 1..Len(Captures(last.calls)) :
                 Captures(last.calls)[i].history = 100
           /\ KeysOf(last.out)
                \subseteq KeysOf(get_stdout(AsStart(last.pre), last.group,
                                            last.window, 100).out)

\* C14 (amended): check_error takes no filter.  Called without one it
\* captures every pane of the three sessions once, with a scroll-back of 100
\* lines, and returns an entry keyed "session:window" exactly for the panes
\* showing an error, so its keys are among those of get_stdout() without a
\* filter; called with a group or a window it fails with a TypeError and
\* issues no backend call.
C14_CheckErrorUnfiltered ==
    last.op = "check_error"
        => IF last.group = None /\ last.window = PyNone
           THEN /\ last.err = "ok"
                /\ KeysOf(last.out)
                     = {PaneKey(p[1], p[2]) : p \in PanesOf(last.pre) \cap last.errored}
                /\ Len(last.out) = Cardinality(KeysOf(last.out))
                /\ Len(Captures(last.calls)) = Cardinality(PanesOf(last.pre))
                /\ \A i \in 1..Len(Captures(last.calls)) :
                      /\ Captures(last.calls)[i].call = "check_error"
                      /\ Captures(last.calls)[i].history = 100
                /\ KeysOf(last.out)
                     \subseteq KeysOf(get_stdout(AsStart(last.pre), None,
                                                 PyNone, 100).out)
           ELSE /\ last.err = "TypeError"
                /\ last.calls = <<>>
                /\ last.out = <<>>

\* one agent pane of a full cluster shows an error
C14_Witness ==
    /\ last.op = "check_error" /\ last.err = "ok"
    /\ last.errored = {<<agent_session, "a">>}
    /\ Len(last.out) = 1
    /\ Cardinality(PanesOf(last.pre)) > 8

Reads == {"is_launched", "get_running_agents", "get_stdout", "check_error"}

\* C15: is_launched, get_running_agents, get_stdout and check_error issue
\* no create and no kill call and leave every session and window as it was;
\* what they return is read from the backend at the time of the call: the
\* agents running are the agent session's windows, so a window that
\* disappeared outside the orchestrator is not among them, and add_agents
\* for the name of such a window succeeds.
C15_ReadsArePure ==
    /\ last.op \in Reads
        => /\ Creates(last.calls) = <<>>
           /\ Kills(last.calls) = <<>>
           /\ Current = last.pre
    /\ (last.op = "is_launched" /\ last.err = "ok")
        => last.out = <<SessionOf(last.group) \in sessions>>
    /\ (last.op = "get_running_agents" /\ last.err = "ok")
        => /\ last.out = WindowNames(Current, agent_session)
           /\ Range(StrNames(last.gone)) \cap Range(last.out) = {}
    /\ (last.op = "add_agents" /\ last.gone # <<>>)
        => /\ last.names = last.gone
           /\ last.err = "ok"
           /\ Range(StrNames(last.gone))
                \subseteq Range(WindowNames(Current, agent_session))

\* an agent window disappeared, another stayed, and add_agents brought the
\* first one back
C15_Witness ==
    /\ last.op = "add_agents" /\ last.err = "ok"
    /\ last.gone = <<PyStr("a")>>
    /\ WindowNames(last.pre, agent_session) = <<"0">>
    /\ WindowNames(Current, agent_session) = <<"0", "a">>

C17_CommandBuilder ==
    last.op = "_get_python_cmd"
        => LET s == last.script
               head == startswith(s, PYTHON)
               sep == \E i \in 1..Len(s) : s[i] = "/"
               py == endswith(s, DOT_PY)
           IN  /\ head => last.err = "ok" /\ last.out = s
               /\ (~head /\ sep /\ ~py)
                    => last.err = "MalformedScriptReference" /\ last.out = <<>>
               /\ (~head /\ py)
                    => last.err = "ok" /\ last.out = PYTHON_U \o s
               /\ (~head /\ ~sep /\ ~py)
                    => last.err = "ok" /\ last.out = PYTHON_U_M \o s
               /\ s = <<"f", "o", "o", ".", "b", "a", "r", ".", "b", "a", "z">>
                    => last.out = <<"p", "y", "t", "h", "o", "n", " ", "-", "u", " ", "-", "m", " ", "f", "o", "o", ".", "b", "a", "r", ".", "b", "a", "z">>
               /\ s = <<"r", "u", "n", ".", "p", "y">>
                    => last.out = <<"p", "y", "t", "h", "o", "n", " ", "-", "u", " ", "r", "u", "n", ".", "p", "y">>
               /\ s = <<"s", "c", "r", "i", "p", "t", "s", "/", "r", "u", "n", ".", "p", "y">>
                    => last.out = <<"p", "y", "t", "h", "o", "n", " ", "-", "u", " ", "s", "c", "r", "i", "p", "t", "s", "/", "r", "u", "n", ".", "p", "y">>
               /\ s = <<"p", "k", "g", "/", "r", "u", "n">>
                    => last.err = "MalformedScriptReference"

\* a file path with a separator and the suffix
C17_Witness ==
    /\ last.op = "_get_python_cmd" /\ last.err = "ok"
    /\ last.script = <<"s", "c", "r", "i", "p", "t", "s", "/", "r", "u", "n", ".", "p", "y">>
    /\ Len(last.out) = 24

\* the create calls of a launch that finds no session and is let run to its
\* end: (session, window) in order
LaunchOrder(names) ==
    << <<"infras-" \o cluster_name, "redis-replay">>,
       <<"infras-" \o cluster_name, "redis-ps">>,
       <<"infras-" \o cluster_name, "redis-plex">>,
       <<"infras-" \o cluster_name, "loggerplex">>,
       <<"infras-" \o cluster_name, "tensorplex">>,
       <<"infras-" \o cluster_name, "tensorboard">>,
       <<"learner-" \o cluster_name, "learner">> >>
    \o (IF evaluator_cmd # None
        THEN << <<"learner-" \o cluster_name, "evaluator">> >> ELSE <<>>)
    \o [i \in 1..Len(names) |-> <<"agent-" \o cluster_name, Str(names[i])>>]

Created(calls) ==
    [i \in 1..Len(Creates(calls)) |->
        <<Creates(calls)[i].session, Creates(calls)[i].window>>]

\* C18: the create calls of a launch that finds no session are issued in
\* one order: the three key-value stores (replay, parameter store, plex), the
\* logging server, the metrics server, the dashboard, the learner, the
\* evaluator if and only if one is configured, then the agents in the order
\* given.  However far the launch gets, what it has issued is a beginning of
\* that order, so no learner or agent window comes before the sixth
\* infrastructure create; a launch that returns without error has issued
\* all of it.
C18_LaunchOrder ==
    (last.op = "launch" /\ last.pre.sessions = {})
        => /\ IsPrefix(Created(last.calls), LaunchOrder(last.names))
           /\ last.err = "ok" => Created(last.calls) = LaunchOrder(last.names)
           /\ \A i \in 1..Len(Created(last.calls)) :
                 Created(last.calls)[i][1] # "infras-" \o cluster_name => i > 6

\* a full launch with an evaluator and two agents
C18_Witness ==
    /\ last.op = "launch" /\ last.err = "ok" /\ last.pre.sessions = {}
    /\ evaluator_cmd # None
    /\ last.names = <<PyInt("0"), PyStr("a")>>
    /\ Len(Creates(last.calls)) = 10

Writes == {"launch", "add_agents", "kill_agents", "killall"}

FailedCalls(calls) == SelectSeq(calls, LAMBDA c : ~c.ok)

\* C19: when a backend call of launch, add_agents, kill_agents or killall
\* fails, the operation ends with that error; the failed call is the last
\* one it issued (it is not issued again and nothing follows it), and every
\* window the operation created before it is still there, as is every
\* window it found and did not kill.
C19_BackendFailureSurfaced ==
    (last.op \in Writes /\ FailedCalls(last.calls) # <<>>)
        => /\ last.err = "BackendUnavailable"
           /\ Len(FailedCalls(last.calls)) = 1
           /\ ~last.calls[Len(last.calls)].ok
           /\ Len(last.calls) = last.budget + 1
           /\ \A i \in 1..Len(last.calls) :
                 (last.calls[i].call = "run" /\ last.calls[i].ok)
                    => \E j \in 1..Len(windows[last.calls[i].session]) :
                          /\ windows[last.calls[i].session][j].name = last.calls[i].window
                          /\ windows[last.calls[i].session][j].cmd = last.calls[i].cmd
           /\ \A s \in SessionIds : \A j \in 1..Len(last.pre.windows[s]) :
                 \/ \E k \in 1..Len(windows[s]) : windows[s][k] = last.pre.windows[s][j]
                 \/ \E i \in 1..Len(last.calls) :
                       /\ last.calls[i].call = "kill" /\ last.calls[i].ok
                       /\ last.calls[i].session = s
                       /\ last.calls[i].window \in {None, last.pre.windows[s][j].name}

\* the backend fails at the fifth create of a launch: four windows stay
C19_Witness ==
    /\ last.op = "launch" /\ last.err = "BackendUnavailable"
    /\ last.pre.sessions = {}
    /\ Len(Creates(last.calls)) = 5
    /\ Len(windows[infras_session]) = 4

\* C20: two add_agents calls of two orchestrators, running at once and
\* naming the same agent: however their steps interleave, the agent session
\* has at most one window of a name, a window one call created is not
\* replaced by the other call's, and the call that issues its create for a
\* name second ends with DuplicateRunningAgent.
C20_ConcurrentAddAgents ==
    /\ \A i, j \in 1..Len(windows[agent_session]) :
          windows[agent_session][i].name = windows[agent_session][j].name => i = j
    /\ \A p \in Procs : \A n \in procs[p].first :
          \E i \in 1..Len(windows[agent_session]) :
             /\ windows[agent_session][i].name = n
             /\ windows[agent_session][i].cmd
                  = agent_cmd \o " " \o NormalizeArg(ConcArgs(p, <<n>>)[1])
    /\ \A p \in Procs :
          procs[p].late # {} => procs[p].err = "DuplicateRunningAgent"

\* C21: in every state reached through launch, add_agents, kill_agents and
\* killall, each of the three sessions is either absent or has at least one
\* window.  So a kill_agents that names every running agent leaves the agent
\* session absent (is_launched('agent') is false), and the launch that
\* follows it finds the agent session missing: it creates exactly the agent
\* windows it is given, or, given ill-formed arguments, fails in validation.
C21_NoEmptySession ==
    /\ \A s \in SessionIds : s \in sessions <=> windows[s] # <<>>
    /\ (/\ last.op = "kill_agents" /\ last.err = "ok"
        /\ Range(WindowNames(last.pre, agent_session))
              \subseteq Range(StrNames(last.names)))
        => /\ agent_session \notin sessions
           /\ ~is_launched(Current, "agent")
    /\ (last.op = "launch" /\ last.emptied)
        => /\ last.pre.windows[agent_session] = <<>>
           /\ IF HasDuplicates(last.names)
              THEN /\ last.err = "DuplicateAgentName"
                   /\ agent_session \notin sessions
              ELSE /\ last.err = "ok"
                   /\ SelectSeq(Created(last.calls),
                                 LAMBDA c : c[1] = "agent-" \o cluster_name)
                        = [i \in 1..Len(last.names) |->
                              <<"agent-" \o cluster_name, Str(last.names[i])>>]
                   /\ WindowNames(Current, agent_session) = StrNames(last.names)

\* kill_agents removed the only agent, the agent session went with it, and
\* the launch that followed brought up a new fleet beside the old infras and
\* learner sessions
C21_Witness ==
    /\ last.op = "launch" /\ last.emptied /\ last.err = "ok"
    /\ last.pre.sessions = {infras_session, learner_session}
    /\ WindowNames(Current, agent_session) = <<"0", "a">>
====
